---- MODULE Spec2Model ----
(***************************************************************************)
(* The form-and-result view of src/frontend/legacy-app.tsx: the six useState *)
(* cells of App, the field-update handlers, and the async handleSubmit with  *)
(* its two suspension points (await fetch, await response.json()).           *)
(*                                                                           *)
(* JavaScript runs each handler segment to completion, so one action is the  *)
(* code between two awaits.  Every segment is written as the sequence of     *)
(* effects the source performs, in source order; the view state after the    *)
(* segment is that sequence applied to the view state before it, and the     *)
(* sequence is appended to the handler's log.                                *)
(***************************************************************************)
EXTENDS Naturals, Sequences, FiniteSets

\* Number of submits followed in one run (handler invocations 1..MaxSubmits).
MaxSubmits == 2

Ids == 1..MaxSubmits

\* Values typed into the two text inputs ("" is the cleared field).
ProgramNames == {"", "Data Science"}
Audiences == {"", "Bangalore"}

\* useState(null) / setCreative(null)
Null == [type |-> "null"]

\* The fixed message of line 39.
FailedMessage == "Failed to generate creative."

\* Messages of the rejections fetch can produce (network-level failures).
NetMessages == {"network down"}

\* Response bodies the endpoint can send.
GoodBody == "{ad_copy_1:A,ad_copy_2:B,creative_brief:C,performance_score:12.5}"
NullBody == "null"
BadBody == "<html>Bad Gateway</html>"
Bodies == {GoodBody, NullBody, BadBody}

Statuses == {200, 500}

\* Response.ok: the status is in the range 200..299.
Ok(status) == status >= 200 /\ status <= 299

Responses == [status : Statuses, text : Bodies]

NoResponse == [status |-> 0, text |-> ""]

\* response.json(): reads the body text and parses it as JSON; the promise
\* resolves with the parsed value or rejects with a SyntaxError.
ParseJSON(text) ==
    CASE text = GoodBody ->
           [ok |-> TRUE, message |-> "",
            value |-> [type |-> "object", ad_copy_1 |-> "A", ad_copy_2 |-> "B",
                       creative_brief |-> "C", performance_score |-> "12.5"]]  \* the score is only displayed
      [] text = NullBody -> [ok |-> TRUE, message |-> "", value |-> Null]
      [] OTHER -> [ok |-> FALSE, message |-> "Unexpected token < in JSON at position 0",
                   value |-> Null]

\* JavaScript truthiness of the two values the render tests (lines 94, 96).
ErrorShown(err) == err # ""
ResultShown(cr) == cr # Null

VARIABLES
    programName,     \* line 7
    targetAudience,  \* line 8
    isLocalized,     \* line 9
    isLoading,       \* line 10
    creative,        \* line 11
    error,           \* line 12
    submits,         \* number of handleSubmit invocations so far
    h                \* h[i]: the i-th invocation of handleSubmit

vars == <<programName, targetAudience, isLocalized, isLoading, creative, error, submits, h>>

fields == <<programName, targetAudience, isLocalized>>
view == <<isLoading, creative, error>>

----------------------------------------------------------------------------
\* Effects

SetIsLoading(b) == [op |-> "setIsLoading", arg |-> [bool |-> b]]
SetError(m) == [op |-> "setError", arg |-> [text |-> m]]
SetCreative(v) == [op |-> "setCreative", arg |-> [value |-> v]]
Fetch(body) == [op |-> "fetch", arg |-> [body |-> body]]
ReadJson == [op |-> "response.json", arg |-> [none |-> TRUE]]
\* A rejection leaving handleSubmit (the promise it returns rejects).
Escape(m) == [op |-> "unhandledrejection", arg |-> [text |-> m]]

View == [isLoading |-> isLoading, creative |-> creative, error |-> error]

ApplyOne(v, e) ==
    CASE e.op = "setIsLoading" -> [v EXCEPT !.isLoading = e.arg.bool]
      [] e.op = "setError" -> [v EXCEPT !.error = e.arg.text]
      [] e.op = "setCreative" -> [v EXCEPT !.creative = e.arg.value]
      [] OTHER -> v

RECURSIVE ApplyEffects(_, _)
ApplyEffects(v, es) ==
    IF es = <<>> THEN v ELSE ApplyEffects(ApplyOne(v, Head(es)), Tail(es))

\* The view state after a handler segment ran.
Commit(es) ==
    LET v == ApplyEffects(View, es)
    IN  /\ isLoading' = v.isLoading
        /\ creative' = v.creative
        /\ error' = v.error

----------------------------------------------------------------------------
\* handleSubmit, segment by segment

\* Variant: the checkbox value is not read, localize is always sent false.
RequestBodyLocalizeDropped ==
    [program_name |-> programName, target_audience |-> targetAudience,
     localize |-> FALSE]

\* The request body built at lines 32-36 from the values of the current render.
RequestBody ==
    [program_name |-> programName, target_audience |-> targetAudience,
     localize |-> isLocalized]

\* Variant: the submit does not clear the previous error.
OnSubmitKeepsError(i) ==
    <<SetIsLoading(TRUE), SetCreative(Null), Fetch(RequestBody)>>

\* Lines 23-37, up to the first await (e.preventDefault() touches only the event).
OnSubmit(i) ==
    <<SetIsLoading(TRUE), SetError(""), SetCreative(Null), Fetch(RequestBody)>>

\* Variant: no finally block, the failure path leaves isLoading set.
CatchOnly(m) == <<SetError(m)>>

\* Variant: the catch block shows the generic message for every failure.
CatchGeneric(m) == <<SetError("Failed to generate creative."), SetIsLoading(FALSE)>>

\* catch (lines 42-43) followed by finally (lines 44-45).
CatchFinally(m) == <<SetError(m), SetIsLoading(FALSE)>>

\* The fetch promise rejected: the await at line 29 throws inside try.
OnFetchRejected(i, m) == CatchFinally(m)

\* Variant: the body is read before the status is looked at.
OnResponseParsesFirst(i, resp) ==
    IF ~Ok(resp.status)
    THEN <<ReadJson, SetError("Failed to generate creative."), SetIsLoading(FALSE)>>
    ELSE <<ReadJson>>

\* The fetch promise resolved: lines 39-40.
OnResponse(i, resp) ==
    IF ~Ok(resp.status) THEN CatchFinally(FailedMessage) ELSE <<ReadJson>>

\* Variant: a response is applied only when it belongs to the latest submit.
OnJsonResolvedLatestOnly(i, data) ==
    IF i = submits THEN <<SetCreative(data), SetIsLoading(FALSE)>> ELSE <<>>

\* response.json() resolved: line 41, then finally.
OnJsonResolved(i, data) == <<SetCreative(data), SetIsLoading(FALSE)>>

\* Variant: the await of response.json() sits outside try: finally does not
\* cover it and the rejection leaves handleSubmit.
OnJsonRejectedEscapes(i, m) == <<Escape(m)>>

\* response.json() rejected: the await at line 40 throws inside try.
OnJsonRejected(i, m) == CatchFinally(m)

\* A handler record: pc is the await the invocation is suspended at ("idle"
\* before it is called, "done" once its promise settled), resp the response
\* fetch resolved with, kind how the invocation ended, thrown the message of
\* the failure thrown inside try, log the effects performed so far.
Idle == [pc |-> "idle", resp |-> NoResponse, kind |-> "none", thrown |-> "", log |-> <<>>]

Init ==
    /\ programName = ""
    /\ targetAudience = ""
    /\ isLocalized = FALSE
    /\ isLoading = FALSE
    /\ creative = Null
    /\ error = ""
    /\ submits = 0
    /\ h = [i \in Ids |-> Idle]

----------------------------------------------------------------------------
\* Field updates (lines 63, 74, 84)

\* Variant: a keystroke in the program name clears the displayed result.
SetProgramNameClearsResult(v) ==
    /\ v # programName
    /\ programName' = v
    /\ creative' = Null
    /\ UNCHANGED <<targetAudience, isLocalized, isLoading, error, submits, h>>

SetProgramName(v) ==
    /\ v # programName
    /\ programName' = v
    /\ UNCHANGED <<targetAudience, isLocalized, view, submits, h>>

SetTargetAudience(v) ==
    /\ v # targetAudience
    /\ targetAudience' = v
    /\ UNCHANGED <<programName, isLocalized, view, submits, h>>

SetIsLocalized(b) ==
    /\ b # isLocalized
    /\ isLocalized' = b
    /\ UNCHANGED <<programName, targetAudience, view, submits, h>>

----------------------------------------------------------------------------
\* Submit

\* Both text inputs carry `required` (lines 65, 76): the browser's constraint
\* validation blocks the submit event while one of them is empty.
FormValid == programName # "" /\ targetAudience # ""

\* Variant: the submit button is never disabled.
ButtonAlwaysEnabled == TRUE

\* <button type="submit" disabled={isLoading}> (line 89).
ButtonEnabled == ~isLoading

StartHandler(i) ==
    /\ submits < MaxSubmits
    /\ i = submits + 1
    /\ submits' = i
    /\ h' = [h EXCEPT ![i] = [Idle EXCEPT !.pc = "fetch", !.log = OnSubmit(i)]]
    /\ Commit(OnSubmit(i))
    /\ UNCHANGED fields

\* The user submits the form through the enabled submit button.
Submit ==
    /\ FormValid
    /\ ButtonEnabled
    /\ StartHandler(submits + 1)

\* A submit event raised while the button is disabled (form.requestSubmit()
\* from a script: validation runs, the disabled button is not consulted).
SubmitBypassed ==
    /\ FormValid
    /\ ~ButtonEnabled
    /\ StartHandler(submits + 1)

Finish(i, kind, m, es) ==
    /\ h' = [h EXCEPT ![i].pc = "done", ![i].kind = kind, ![i].thrown = m,
                      ![i].log = h[i].log \o es]
    /\ Commit(es)
    /\ UNCHANGED <<fields, submits>>

\* fetch rejects with a network-level failure carrying message m.
FetchReject(i, m) ==
    /\ h[i].pc = "fetch"
    /\ Finish(i, "network", m, OnFetchRejected(i, m))

\* fetch resolves with a response.
FetchResolve(i, resp) ==
    /\ h[i].pc = "fetch"
    /\ IF Ok(resp.status)
       THEN /\ h' = [h EXCEPT ![i].pc = "json", ![i].resp = resp,
                              ![i].log = h[i].log \o OnResponse(i, resp)]
            /\ Commit(OnResponse(i, resp))
            /\ UNCHANGED <<fields, submits>>
       ELSE /\ h' = [h EXCEPT ![i].pc = "done", ![i].resp = resp, ![i].kind = "status",
                              ![i].thrown = FailedMessage,
                              ![i].log = h[i].log \o OnResponse(i, resp)]
            /\ Commit(OnResponse(i, resp))
            /\ UNCHANGED <<fields, submits>>

\* response.json() resolves with the parsed body.
JsonResolve(i) ==
    /\ h[i].pc = "json"
    /\ ParseJSON(h[i].resp.text).ok
    /\ Finish(i, "success", "", OnJsonResolved(i, ParseJSON(h[i].resp.text).value))

\* response.json() rejects: the body is not JSON.
JsonReject(i) ==
    /\ h[i].pc = "json"
    /\ ~ParseJSON(h[i].resp.text).ok
    /\ Finish(i, "parse", ParseJSON(h[i].resp.text).message,
              OnJsonRejected(i, ParseJSON(h[i].resp.text).message))

\* Normal operation: submits come through the submit button.
Next ==
    \/ \E v \in ProgramNames : SetProgramName(v)
    \/ \E v \in Audiences : SetTargetAudience(v)
    \/ \E b \in BOOLEAN : SetIsLocalized(b)
    \/ Submit
    \/ \E i \in Ids, m \in NetMessages : FetchReject(i, m)
    \/ \E i \in Ids, resp \in Responses : FetchResolve(i, resp)
    \/ \E i \in Ids : JsonResolve(i)
    \/ \E i \in Ids : JsonReject(i)

Spec == Init /\ [][Next]_vars

\* The disabled button bypassed: a submit may start while a request is in flight.
NextRace == Next \/ SubmitBypassed

SpecRace == Init /\ [][NextRace]_vars

\* Once the response has arrived, reading its body ends: the json() promise
\* settles and the continuation of handleSubmit runs as a microtask.
LiveSpec ==
    Spec /\ WF_vars(\E i \in Ids : JsonResolve(i)) /\ WF_vars(\E i \in Ids : JsonReject(i))

----------------------------------------------------------------------------
\* Derived views of a handler

Active == {i \in Ids : h[i].pc \in {"fetch", "json"}}
Done(i) == h[i].pc = "done"
\* The requests invocation i issued.
Requests(i) == SelectSeq(h[i].log, LAMBDA e : e.op = "fetch")
Parsed(i) == \E k \in DOMAIN h[i].log : h[i].log[k].op = "response.json"
Escaped(i) == \E k \in DOMAIN h[i].log : h[i].log[k].op = "unhandledrejection"
\* Invocation i finished last and nothing was submitted after it.
JustFinished(i) == i = submits /\ Done(i)

----------------------------------------------------------------------------
\* Properties

\* C1: right after a handleSubmit that no other submit overlapped has finished,
\* exactly one of result (creative non-null) and error (non-empty) is present.
C1_ExactlyOneOutcome ==
    \A i \in Ids :
        JustFinished(i) => (ResultShown(creative) /\ ~ErrorShown(error))
                           \/ (~ResultShown(creative) /\ ErrorShown(error))

\* C2: setIsLoading(true) is the first effect of every handleSubmit and comes
\* before the request; every finished handleSubmit ended with
\* setIsLoading(false) and let no rejection out; once the response has arrived
\* the handler finishes, and then isLoading is false.
C2_LoadingBracketsRequest ==
    /\ [](\A i \in Ids :
            h[i].pc # "idle" =>
                /\ h[i].log[1] = SetIsLoading(TRUE)
                /\ \A k \in DOMAIN h[i].log : h[i].log[k].op = "fetch" => k > 1)
    /\ [](\A i \in Ids :
            Done(i) =>
                /\ h[i].log[Len(h[i].log)] = SetIsLoading(FALSE)
                /\ ~Escaped(i)
                /\ (JustFinished(i) => ~isLoading))
    /\ \A i \in Ids : (h[i].pc = "json") ~> (Done(i) /\ (i = submits => ~isLoading))

\* A submit whose response body was not JSON has finished with isLoading false.
C2_Witness ==
    \E i \in Ids :
        /\ JustFinished(i)
        /\ h[i].kind = "parse"
        /\ h[i].log[1] = SetIsLoading(TRUE)
        /\ ~isLoading

\* C3: after a response with a non-success status, error is exactly the fixed
\* message whatever the body holds, creative is null, and the body was never
\* parsed.
C3_NonOkFixedMessage ==
    \A i \in Ids :
        (JustFinished(i) /\ h[i].resp # NoResponse /\ ~Ok(h[i].resp.status)) =>
            /\ error = "Failed to generate creative."
            /\ creative = Null
            /\ ~Parsed(i)

\* A 500 response that carries a well-formed result body has been handled.
C3_Witness ==
    \E i \in Ids :
        /\ JustFinished(i)
        /\ h[i].resp = [status |-> 500, text |-> GoodBody]
        /\ error = "Failed to generate creative."

\* C4: after a submit in which a failure with message m was thrown (network
\* exception, non-ok status, body that does not parse), error equals m and
\* creative is null.
C4_ErrorIsThrownMessage ==
    \A i \in Ids :
        (JustFinished(i) /\ h[i].kind \in {"network", "status", "parse"}) =>
            /\ error = h[i].thrown
            /\ creative = Null

\* The network exception "network down" has been shown.
C4_Witness ==
    \E i \in Ids :
        /\ JustFinished(i)
        /\ h[i].kind = "network"
        /\ h[i].thrown = "network down"
        /\ error = "network down"

\* C5 as stated: a failure while parsing the body of a success-status response
\* leaves handleSubmit as an unhandled rejection and is not recorded in error.
C5_ParseFailureEscapes ==
    \A i \in Ids :
        (JustFinished(i) /\ h[i].kind = "parse") =>
            /\ Escaped(i)
            /\ error # h[i].thrown

\* C5 as amended: a failure while parsing the body of a success-status response
\* is caught by handleSubmit: its message is recorded in error, isLoading is
\* reset and no rejection leaves the handler.
C5_ParseFailureCaught ==
    \A i \in Ids :
        (JustFinished(i) /\ h[i].kind = "parse") =>
            /\ ~Escaped(i)
            /\ error = h[i].thrown
            /\ ErrorShown(error)
            /\ ~isLoading

\* A 200 response with a body that is not JSON has been handled.
C5_Witness ==
    \E i \in Ids :
        /\ JustFinished(i)
        /\ h[i].resp = [status |-> 200, text |-> BadBody]
        /\ Parsed(i)
        /\ error = ParseJSON(BadBody).message

\* C6: in normal operation error and result are never both present.
C6_ErrorAndResultExclusive == ~(ErrorShown(error) /\ ResultShown(creative))

\* A failed submit was followed by a successful one.
C6_Witness ==
    \E i, j \in Ids :
        /\ i < j
        /\ h[i].kind \in {"network", "status", "parse"}
        /\ JustFinished(j)
        /\ h[j].kind = "success"
        /\ ResultShown(creative)

\* C7: with overlapping submits no settlement is cancelled or discarded: the
\* step in which a handler finishes writes its outcome to the view state,
\* whether or not a newer submit has started since.
C7_EverySettlementApplied ==
    [][\A i \in Ids :
         (~Done(i) /\ h'[i].pc = "done") =>
             /\ isLoading' = FALSE
             /\ (h'[i].kind = "success" => creative' = ParseJSON(h[i].resp.text).value)
             /\ (h'[i].kind # "success" => error' = h'[i].thrown)]_vars

\* The older request succeeded after the newer submit's reset and the newer
\* request failed: error and result are both present.
C7_Witness ==
    \E i, j \in Ids :
        /\ i < j
        /\ Done(i) /\ h[i].kind = "success"
        /\ Done(j) /\ h[j].kind \in {"network", "status", "parse"}
        /\ ErrorShown(error)
        /\ ResultShown(creative)

\* C8 as stated: the result of a successful submit is still present while the
\* next submission is in flight (it stays until that submission completes).
C8_ResultKeptUntilNextCompletes ==
    \A i, j \in Ids :
        (j = i + 1 /\ h[i].kind = "success" /\ ResultShown(ParseJSON(h[i].resp.text).value)
         /\ h[j].pc \in {"fetch", "json"})
            => ResultShown(creative)

\* C8 as amended: while a result is displayed, every step other than the start
\* of a submission (the field updates) leaves result, error and isLoading
\* unchanged, and the start of the next submission clears the result.
C8_ResultKeptUntilNextStarts ==
    [][/\ (fields' # fields => UNCHANGED view)
       /\ ResultShown(creative) =>
              /\ (submits' = submits => UNCHANGED view)
              /\ (submits' # submits => creative' = Null)]_vars

\* A result is displayed and the fields no longer hold what was submitted.
C8_Witness ==
    \E i \in Ids :
        /\ JustFinished(i)
        /\ h[i].kind = "success"
        /\ ResultShown(creative)
        /\ programName = ""
        /\ Requests(i)[1].arg.body.program_name # ""

\* C9: every submit issues exactly one request, whose body holds the three
\* inputs as they were when the submit started; later field updates do not
\* change it.
C9_OneRequestWithSubmittedInputs ==
    /\ [](\A i \in Ids : h[i].pc # "idle" => Len(Requests(i)) = 1)
    /\ [][\A i \in Ids :
            /\ (h[i].pc = "idle" /\ h'[i].pc # "idle") =>
                   LET sent == SelectSeq(h'[i].log, LAMBDA e : e.op = "fetch")[1].arg.body
                   IN  /\ sent.program_name = programName
                       /\ sent.target_audience = targetAudience
                       /\ sent.localize = isLocalized
            /\ (h[i].pc # "idle") =>
                   SelectSeq(h'[i].log, LAMBDA e : e.op = "fetch") = Requests(i)]_vars

\* A request sent with the checkbox checked is in flight while the checkbox
\* has been unchecked and the program name cleared.
C9_Witness ==
    \E i \in Ids :
        /\ h[i].pc = "fetch"
        /\ Requests(i)[1].arg.body.localize
        /\ ~isLocalized
        /\ programName = ""

\* C10: when submits come only through the enabled button, at most one request
\* is outstanding and isLoading is true exactly when one is.
C10_LoadingIffOutstanding ==
    /\ Cardinality(Active) <= 1
    /\ isLoading <=> Active # {}

\* A second request is outstanding after the first one finished.
C10_Witness ==
    \E i, j \in Ids :
        /\ i < j
        /\ Done(i)
        /\ h[j].pc = "json"
        /\ isLoading

====
